---------------------------- MODULE Spec2Model ----------------------------
(***************************************************************************)
(* A model of cfspeedtest (src/src/main.rs): speed_test fetches the        *)
(* metadata, runs the latency test and then the download and the upload    *)
(* tests, one blocking request after the other.                            *)
(*                                                                         *)
(* f64 values are modelled as exact rationals n/d (d > 0) together with    *)
(* the IEEE special values +inf, -inf and NaN; rounding is not modelled.   *)
(* Durations are whole milliseconds.                                       *)
(***************************************************************************)
EXTENDS Integers, Sequences, FiniteSets, TLC

(***************************************************************************)
(* Program constants.                                                      *)
(***************************************************************************)
NR_TEST_RUNS == 10
PAYLOAD_SIZES == <<100000, 1000000, 10000000>>
NR_LATENCY_TESTS == 25

(***************************************************************************)
(* Bounds of the model.                                                    *)
(***************************************************************************)
\* How many responses of one run may deviate from the nominal response.
MaxAnomalies == 1
\* Odd responses come only in the first OddWindow iterations of a loop.
OddWindow == 2
\* The longest batch handed to log_measurements in the batch specification.
MaxBatch == 3

(***************************************************************************)
(* f64                                                                     *)
(***************************************************************************)
Abs(x) == IF x < 0 THEN -x ELSE x

RECURSIVE GCD(_, _)
GCD(a, b) == IF b = 0 THEN a ELSE GCD(b, a % b)

\* The finite value n/d, d # 0, in lowest terms with a positive denominator.
F(n, d) ==
    LET g == GCD(Abs(n), Abs(d))
        s == IF d < 0 THEN -1 ELSE 1
    IN  [k |-> "num", n |-> (s * n) \div g, d |-> (s * d) \div g]

INFINITY == [k |-> "inf", n |-> 1, d |-> 0]
NEG_INFINITY == [k |-> "inf", n |-> -1, d |-> 0]
NAN == [k |-> "nan", n |-> 0, d |-> 0]

IsNaN(x) == x.k = "nan"
IsFinite(x) == x.k = "num"

\* a < b on f64: false as soon as one side is NaN.
FLess(a, b) ==
    CASE IsNaN(a) \/ IsNaN(b) -> FALSE
      [] a.k = "inf" /\ b.k = "inf" -> a.n < b.n
      [] a.k = "inf" -> a.n < 0
      [] b.k = "inf" -> b.n > 0
      [] OTHER -> a.n * b.d < b.n * a.d

\* a + b on f64.
FAdd(a, b) ==
    CASE IsNaN(a) \/ IsNaN(b) -> NAN
      [] a.k = "inf" /\ b.k = "inf" -> IF a.n = b.n THEN a ELSE NAN
      [] a.k = "inf" -> a
      [] b.k = "inf" -> b
      [] OTHER -> F(a.n * b.d + b.n * a.d, a.d * b.d)

\* a - b on f64.
FSub(a, b) == FAdd(a, [b EXCEPT !.n = -b.n])

\* a / b on f64: x/0 is an infinity, 0/0 and inf/inf are NaN.
FDiv(a, b) ==
    CASE IsNaN(a) \/ IsNaN(b) -> NAN
      [] a.k = "inf" /\ b.k = "inf" -> NAN
      [] a.k = "inf" -> IF b.n < 0 THEN [a EXCEPT !.n = -a.n] ELSE a
      [] b.k = "inf" -> F(0, 1)
      [] b.n = 0 -> IF a.n = 0 THEN NAN ELSE IF a.n > 0 THEN INFINITY ELSE NEG_INFINITY
      [] OTHER -> F(a.n * b.d, a.d * b.n)

\* a * b on f64, for finite values.
FMul(a, b) == F(a.n * b.n, a.d * b.d)

\* f64::min and f64::max: a NaN operand is ignored.
FMin(a, b) == IF IsNaN(a) THEN b ELSE IF IsNaN(b) THEN a ELSE IF FLess(b, a) THEN b ELSE a
FMax(a, b) == IF IsNaN(a) THEN b ELSE IF IsNaN(b) THEN a ELSE IF FLess(a, b) THEN b ELSE a

\* iter().sum::<f64>(), from 0.0, left to right.
RECURSIVE FSum(_)
FSum(s) == IF s = <<>> THEN F(0, 1) ELSE FAdd(FSum(SubSeq(s, 1, Len(s) - 1)), s[Len(s)])

\* iter().fold(init, min) and iter().fold(init, max).
RECURSIVE FoldMin(_, _)
FoldMin(acc, s) == IF s = <<>> THEN acc ELSE FoldMin(FMin(acc, s[1]), Tail(s))

RECURSIVE FoldMax(_, _)
FoldMax(acc, s) == IF s = <<>> THEN acc ELSE FoldMax(FMax(acc, s[1]), Tail(s))


(***************************************************************************)
(* Responses of the remote endpoint, as reqwest hands them to the program. *)
(* A header value is its bytes and whether all of them are visible ASCII   *)
(* (what HeaderValue::to_str checks).  A response is the result of send()  *)
(* ("ok" or "err"), its headers, the result of reading its body and the    *)
(* wall-clock time of the call in milliseconds.                            *)
(***************************************************************************)
MetaNames == {"cf-meta-city", "cf-meta-country", "cf-meta-ip", "cf-meta-asn", "cf-meta-colo"}

HV(bytes) == [bytes |-> bytes, visible_ascii |-> TRUE]
Opaque == [bytes |-> "Z\\xFCrich", visible_ascii |-> FALSE]

NominalMeta(name) ==
    CASE name = "cf-meta-city" -> HV("Berlin")
      [] name = "cf-meta-country" -> HV("DE")
      [] name = "cf-meta-ip" -> HV("203.0.113.7")
      [] name = "cf-meta-asn" -> HV("13335")
      [] name = "cf-meta-colo" -> HV("TXL")

NoHeaders == [n \in {} |-> Opaque]

\* The header map in which each name is "present", "absent" or "opaque".
HeadersOf(kinds) ==
    [n \in {m \in DOMAIN kinds : kinds[m] # "absent"} |->
        IF kinds[n] = "present" THEN NominalMeta(n) ELSE Opaque]

\* Header maps of the metadata response.  A map with an absent header counts
\* one anomaly per absent header; a map with an opaque value is always drawn.
MetaHeaderMaps(budget) ==
    {HeadersOf(kinds) : kinds \in
        {ks \in [MetaNames -> {"present", "absent", "opaque"}] :
            \/ \E n \in MetaNames : ks[n] = "opaque"
            \/ Cardinality({n \in MetaNames : ks[n] = "absent"}) <= budget}}

Resp(send, headers, body, ms) ==
    [send |-> send, headers |-> headers, body |-> body, duration_ms |-> ms]

NoResp == Resp("pending", NoHeaders, "none", 0)
SendErr == Resp("err", NoHeaders, "none", 0)

MetaResponses(budget) ==
    {SendErr} \cup {Resp("ok", h, "unread", 50) : h \in MetaHeaderMaps(budget)}

ServerTiming(v) == [n \in {"Server-Timing"} |-> v]

\* The latency probe: nominally 50 ms observed, 10 ms reported by the server.
NominalLatencyResp == Resp("ok", ServerTiming(HV("cfRequestDuration;dur=10")), "unread", 50)

\* Responses that make test_latency panic.
FatalLatencyResps ==
    {SendErr,
     Resp("ok", NoHeaders, "unread", 50),
     Resp("ok", ServerTiming(Opaque), "unread", 50),
     Resp("ok", ServerTiming(HV("cfRequestDuration")), "unread", 50),
     Resp("ok", ServerTiming(HV("cfRequestDuration;dur=1.2.3")), "unread", 50)}

\* Responses that deviate from the nominal one and let the run go on.
OddLatencyResps ==
    {Resp("ok", ServerTiming(HV("cfRequestDuration;dur=10")), "unread", 5),
     Resp("ok", ServerTiming(HV("cfRequestDuration;dur=60")), "unread", 50)}

LatencyResponses(budget) ==
    {NominalLatencyResp} \cup FatalLatencyResps
        \cup (IF budget > 0 THEN OddLatencyResps ELSE {})

\* A transfer: nominally the whole body read after 100 ms.
NominalTransferResp == Resp("ok", NoHeaders, "ok", 100)

OddTransferResps == {Resp("ok", NoHeaders, "ok", 200), Resp("ok", NoHeaders, "err", 100)}

TransferResponses(budget) ==
    {NominalTransferResp, SendErr} \cup (IF budget > 0 THEN OddTransferResps ELSE {})

\* What a response takes of the anomaly budget.
MetaCost(r) ==
    IF r.send = "err" \/ \E n \in DOMAIN r.headers : ~r.headers[n].visible_ascii THEN 0
    ELSE Cardinality(MetaNames \ DOMAIN r.headers)

LatencyCost(r) == IF r \in OddLatencyResps THEN 1 ELSE 0

TransferCost(r) == IF r \in OddTransferResps THEN 1 ELSE 0

(***************************************************************************)
(* The program's functions.                                                *)
(***************************************************************************)
\* HeaderValue::to_str: an error unless every byte is visible ASCII.
to_str(v) == [ok |-> v.visible_ascii, str |-> IF v.visible_ascii THEN v.bytes ELSE ""]

\* extract_header_value: the header's value, or na_value when it is absent;
\* to_str().unwrap() panics on a value that is not visible ASCII.
extract_header_value(headers, header_name, na_value) ==
    LET v == IF header_name \in DOMAIN headers THEN headers[header_name] ELSE HV(na_value)
        s == to_str(v)
    IN  [panic |-> ~s.ok, value |-> s.str]

NoMetadata == [city |-> "", country |-> "", ip |-> "", asn |-> "", colo |-> ""]

\* fetch_metadata after send(): the Metadata built from the response headers.
fetch_metadata(headers) ==
    LET city == extract_header_value(headers, "cf-meta-city", "City N/A")
        country == extract_header_value(headers, "cf-meta-country", "Country N/A")
        ip == extract_header_value(headers, "cf-meta-ip", "IP N/A")
        asn == extract_header_value(headers, "cf-meta-asn", "ASN N/A")
        colo == extract_header_value(headers, "cf-meta-colo", "Colo N/A")
        bad == city.panic \/ country.panic \/ ip.panic \/ asn.panic \/ colo.panic
    IN  [panic |-> IF bad THEN "to_str" ELSE "none",
         metadata |-> IF bad THEN NoMetadata
                      ELSE [city |-> city.value, country |-> country.value,
                            ip |-> ip.value, asn |-> asn.value, colo |-> colo.value]]

\* Regex cfRequestDuration;dur=([\d.]+) on the header texts of the model:
\* group 1 of the first match, or no match.
captures(text) ==
    CASE text = "cfRequestDuration;dur=10" -> [matched |-> TRUE, group1 |-> "10"]
      [] text = "cfRequestDuration;dur=60" -> [matched |-> TRUE, group1 |-> "60"]
      [] text = "cfRequestDuration;dur=1.2.3" -> [matched |-> TRUE, group1 |-> "1.2.3"]
      [] OTHER -> [matched |-> FALSE, group1 |-> ""]

\* str::parse::<f64> on the captured texts of the model.
parse_f64(str) ==
    CASE str = "10" -> [ok |-> TRUE, value |-> F(10, 1)]
      [] str = "60" -> [ok |-> TRUE, value |-> F(60, 1)]
      [] OTHER -> [ok |-> FALSE, value |-> NAN]

\* A variant that takes 0 for a header it cannot read (unwrap_or).
cf_req_duration_or_zero(headers) ==
    IF "Server-Timing" \notin DOMAIN headers THEN [panic |-> "none", value |-> F(0, 1)]
    ELSE LET v == parse_f64(captures(to_str(headers["Server-Timing"]).str).group1)
         IN  [panic |-> "none", value |-> IF v.ok THEN v.value ELSE F(0, 1)]

\* test_latency, lines 101-116: cf_req_duration from the Server-Timing header;
\* the expect and every unwrap panics.
cf_req_duration(headers) ==
    IF "Server-Timing" \notin DOMAIN headers
    THEN [panic |-> "No Server-Timing in response header", value |-> NAN]
    ELSE LET s == to_str(headers["Server-Timing"])
             c == captures(s.str)
             v == parse_f64(c.group1)
         IN  CASE ~s.ok -> [panic |-> "to_str", value |-> NAN]
               [] ~c.matched -> [panic |-> "captures", value |-> NAN]
               [] ~v.ok -> [panic |-> "parse", value |-> NAN]
               [] OTHER -> [panic |-> "none", value |-> v.value]

\* A variant without the clamp.
clamp_latency_missing(req_latency) == req_latency

\* test_latency, lines 117-121: negative latencies are set to 0.
clamp_latency(req_latency) == IF FLess(req_latency, F(0, 1)) THEN F(0, 1) ELSE req_latency

\* Duration::as_secs_f64 of a duration of ms milliseconds.
as_secs_f64(ms) == F(ms, 1000)

\* test_latency on the response r of its request.
test_latency(r) ==
    IF r.send = "err" THEN [panic |-> "failed to get response", latency |-> NAN]
    ELSE LET duration == FMul(as_secs_f64(r.duration_ms), F(1000, 1))
             cf == cf_req_duration(r.headers)
         IN  IF cf.panic # "none" THEN [panic |-> cf.panic, latency |-> NAN]
             ELSE [panic |-> "none", latency |-> clamp_latency(FSub(duration, cf.value))]

\* A variant that forgets the 8 bits of a byte.
mbits_of_bytes(payload_size_bytes, duration_ms) ==
    FDiv(FDiv(F(payload_size_bytes, 1), F(1000000, 1)), F(duration_ms, 1000))

\* timed_send, line 216: megabits per second.
mbits(payload_size_bytes, duration_ms) ==
    FDiv(FDiv(FMul(F(payload_size_bytes, 1), F(8, 1)), F(1000000, 1)),
         as_secs_f64(duration_ms))

\* timed_send on the response r: the result of response.bytes() is dropped.
timed_send(r, payload_size_bytes) ==
    IF r.send = "err" THEN [panic |-> "failed to get response", mbits |-> NAN]
    ELSE [panic |-> "none", mbits |-> mbits(payload_size_bytes, r.duration_ms)]

Measurement(test_type, payload_size, mbit) ==
    [test_type |-> test_type, payload_size |-> payload_size, mbit |-> mbit]

MbitOf(measurements) == [j \in 1..Len(measurements) |-> measurements[j].mbit]

\* usize as f64.
as_f64(n) == F(n, 1)

\* log_measurements: min, max and avg are computed first; measurements[0] in
\* the arguments of println! then panics on an empty slice.
log_measurements(measurements) ==
    LET min == FoldMin(INFINITY, MbitOf(measurements))
        max == FoldMax(NEG_INFINITY, MbitOf(measurements))
        avg == FDiv(FSum(MbitOf(measurements)), as_f64(Len(measurements)))
    IN  [min |-> min, max |-> max, avg |-> avg,
         panic |-> IF Len(measurements) = 0 THEN "index out of bounds" ELSE "none",
         test_type |-> IF Len(measurements) = 0 THEN "" ELSE measurements[1].test_type]

\* run_latency_test, line 84.
average(samples) == FDiv(FSum(samples), as_f64(Len(samples)))

\* Variants with the other kind of range.
latency_range_done_exclusive(i) == i >= NR_LATENCY_TESTS
runs_range_done_inclusive(i) == i > NR_TEST_RUNS

\* for i in 0..=NR_LATENCY_TESTS is over once i exceeds NR_LATENCY_TESTS.
latency_range_done(i) == i > NR_LATENCY_TESTS

\* for i in 0..NR_TEST_RUNS is over once i reaches NR_TEST_RUNS.
runs_range_done(i) == i >= NR_TEST_RUNS

\* A variant that uploads before it downloads.
speed_test_upload_first == <<"fetch_metadata", "run_latency_test", "Upload", "Download">>

\* speed_test: the calls it makes, in order.
speed_test == <<"fetch_metadata", "run_latency_test", "Download", "Upload">>

(***************************************************************************)
(* The state of a run.                                                     *)
(***************************************************************************)
VARIABLES
    step,               \* speed_test: the index of the call being executed
    panic,              \* "none", or the message of the panic that ended the run
    log,                \* every request issued so far, with its response
    inflight,           \* indices in log of the requests sent and not yet returned
    metadata,           \* speed_test: let metadata
    latencies,          \* run_latency_test: let mut measurements
    avg_latency,        \* run_latency_test: what it returned, once it has
    i,                  \* the loop counter of the running function
    size_idx,           \* run_tests: the index in PAYLOAD_SIZES of payload_size
    measurements,       \* run_tests / the batch: let mut measurements
    results,            \* speed_test: _down_measurements and _up_measurements
    stats,              \* log_measurements: let min, max, avg
    stdout,             \* the lines printed
    anomalies           \* how many odd responses the run has had

vars == <<step, panic, log, inflight, metadata, latencies, avg_latency, i, size_idx,
          measurements, results, stats, stdout, anomalies>>

TestTypes == {"Download", "Upload"}

NotReturned == [returned |-> FALSE, measurements |-> <<>>]

NoStats == [computed |-> FALSE, min |-> NAN, max |-> NAN, avg |-> NAN]

\* A line of output: what it is about and the numbers it shows.
Line(about, min, max, avg) == [line |-> about, min |-> min, max |-> max, avg |-> avg]

Init ==
    /\ step = 1
    /\ panic = "none"
    /\ log = <<>>
    /\ inflight = {}
    /\ metadata = NoMetadata
    /\ latencies = <<>>
    /\ avg_latency = [returned |-> FALSE, value |-> NAN]
    /\ i = 0
    /\ size_idx = 1
    /\ measurements = <<>>
    /\ results = [t \in TestTypes |-> NotReturned]
    /\ stats = NoStats
    /\ stdout = <<>>
    /\ anomalies = 0

Running == panic = "none" /\ step \in 1..Len(speed_test)
Call == IF Running THEN speed_test[step] ELSE "none"
\* How many odd responses the next response may still bring.
Budget == IF i < OddWindow THEN MaxAnomalies - anomalies ELSE 0

\* RequestBuilder::send of reqwest::blocking: the request goes out and the
\* caller is blocked until send returns.
Send(phase, method, bytes) ==
    /\ inflight = {}
    /\ log' = Append(log, [phase |-> phase, method |-> method, bytes |-> bytes,
                           resp |-> NoResp])
    /\ inflight' = {Len(log) + 1}

\* send (and, in timed_send, bytes) returns with the response r.
Return(r) ==
    /\ inflight # {}
    /\ log' = [k \in DOMAIN log |-> IF k \in inflight THEN [log[k] EXCEPT !.resp = r]
                                    ELSE log[k]]
    /\ inflight' = {}

Panic(msg) == panic' = msg

\* The running function returns: speed_test makes its next call.
StatsOf(summary) ==
    [computed |-> TRUE, min |-> summary.min, max |-> summary.max, avg |-> summary.avg]

LineOf(summary) == Line(summary.test_type, summary.min, summary.max, summary.avg)

NextCall ==
    /\ step' = step + 1
    /\ i' = 0
    /\ size_idx' = 1

(***************************************************************************)
(* fetch_metadata                                                          *)
(***************************************************************************)
FetchMetadataSend ==
    /\ Call = "fetch_metadata"
    /\ Send("metadata", "GET", 0)
    /\ UNCHANGED <<step, panic, metadata, latencies, avg_latency, i, size_idx,
                   measurements, results, stats, stdout, anomalies>>

FetchMetadataReturnWith(r) ==
    /\ Return(r)
    /\ anomalies' = anomalies + MetaCost(r)
    /\ UNCHANGED <<latencies, avg_latency, measurements, results, stats>>
    /\ IF r.send = "err"
       THEN /\ Panic("failed to get response")
            /\ UNCHANGED <<step, i, size_idx, metadata, stdout>>
       ELSE LET m == fetch_metadata(r.headers)
            IN  IF m.panic # "none"
                THEN /\ Panic(m.panic)
                     /\ UNCHANGED <<step, i, size_idx, metadata, stdout>>
                ELSE /\ metadata' = m.metadata
                     /\ stdout' = Append(stdout, Line("metadata", NAN, NAN, NAN))
                     /\ NextCall
                     /\ UNCHANGED panic

(***************************************************************************)
(* run_latency_test                                                        *)
(***************************************************************************)
LatencySend ==
    /\ Call = "run_latency_test"
    /\ ~latency_range_done(i)
    /\ Send("latency", "GET", 0)
    /\ UNCHANGED <<step, panic, metadata, latencies, avg_latency, i, size_idx,
                   measurements, results, stats, stdout, anomalies>>

LatencyReturnWith(r) ==
    /\ Return(r)
    /\ anomalies' = anomalies + LatencyCost(r)
    /\ UNCHANGED <<metadata, measurements, results, stats>>
    /\ LET t == test_latency(r)
           pushed == Append(latencies, t.latency)
       IN  IF t.panic # "none"
           THEN /\ Panic(t.panic)
                /\ UNCHANGED <<step, i, size_idx, latencies, avg_latency, stdout>>
           ELSE /\ latencies' = pushed
                /\ UNCHANGED panic
                /\ IF latency_range_done(i + 1)
                   THEN /\ avg_latency' = [returned |-> TRUE, value |-> average(pushed)]
                        /\ stdout' = Append(stdout, Line("latency", NAN, NAN, average(pushed)))
                        /\ NextCall
                   ELSE /\ i' = i + 1
                        /\ UNCHANGED <<step, size_idx, avg_latency, stdout>>

(***************************************************************************)
(* run_tests with test_download or test_upload                             *)
(***************************************************************************)
TransferSend ==
    /\ Call \in TestTypes
    /\ size_idx <= Len(PAYLOAD_SIZES)
    /\ ~runs_range_done(i)
    /\ Send(Call, IF Call = "Download" THEN "GET" ELSE "POST", PAYLOAD_SIZES[size_idx])
    /\ UNCHANGED <<step, panic, metadata, latencies, avg_latency, i, size_idx,
                   measurements, results, stats, stdout, anomalies>>

TransferReturnWith(r) ==
    /\ Return(r)
    /\ anomalies' = anomalies + TransferCost(r)
    /\ UNCHANGED <<metadata, latencies, avg_latency>>
    /\ LET payload_size == PAYLOAD_SIZES[size_idx]
           t == timed_send(r, payload_size)
           pushed == Append(measurements, Measurement(Call, payload_size, t.mbits))
           size_over == runs_range_done(i + 1)
           all_over == size_over /\ size_idx + 1 > Len(PAYLOAD_SIZES)
           summary == log_measurements(pushed)
       IN  CASE t.panic # "none" ->
                    /\ Panic(t.panic)
                    /\ UNCHANGED <<step, i, size_idx, measurements, results, stats, stdout>>
             [] t.panic = "none" /\ ~all_over ->
                    /\ measurements' = pushed
                    /\ i' = IF size_over THEN 0 ELSE i + 1
                    /\ size_idx' = IF size_over THEN size_idx + 1 ELSE size_idx
                    /\ UNCHANGED <<step, panic, results, stats, stdout>>
             [] t.panic = "none" /\ all_over /\ summary.panic # "none" ->
                    /\ Panic(summary.panic)
                    /\ measurements' = pushed
                    /\ stats' = StatsOf(summary)
                    /\ UNCHANGED <<step, i, size_idx, results, stdout>>
             [] OTHER ->
                    /\ stats' = StatsOf(summary)
                    /\ stdout' = Append(stdout, LineOf(summary))
                    /\ results' = [results EXCEPT
                                      ![Call] = [returned |-> TRUE, measurements |-> pushed]]
                    /\ measurements' = <<>>
                    /\ NextCall
                    /\ UNCHANGED panic

(***************************************************************************)
(* A batch: transfers through timed_send, each pushed as a Measurement,    *)
(* and log_measurements on the batch; no speed_test runs (step = 0).       *)
(***************************************************************************)
InitBatch ==
    /\ step = 0
    /\ panic = "none"
    /\ log = <<>>
    /\ inflight = {}
    /\ metadata = NoMetadata
    /\ latencies = <<>>
    /\ avg_latency = [returned |-> FALSE, value |-> NAN]
    /\ i = 0
    /\ size_idx = 1
    /\ measurements = <<>>
    /\ results = [t \in TestTypes |-> NotReturned]
    /\ stats = NoStats
    /\ stdout = <<>>
    /\ anomalies = 0

BatchOpen == step = 0 /\ panic = "none" /\ ~stats.computed

\* One transfer of the batch: test_download or test_upload, then the push.
BatchTransfer ==
    /\ BatchOpen
    /\ Len(measurements) < MaxBatch
    /\ \E test_type \in (IF measurements = <<>> THEN TestTypes
                          ELSE {measurements[1].test_type}),
          size \in 1..Len(PAYLOAD_SIZES),
          r \in TransferResponses(1) :
          LET payload_size == PAYLOAD_SIZES[size]
              t == timed_send(r, payload_size)
          IN  /\ log' = Append(log, [phase |-> test_type,
                                     method |-> IF test_type = "Download" THEN "GET"
                                                ELSE "POST",
                                     bytes |-> payload_size, resp |-> r])
              /\ IF t.panic # "none"
                 THEN Panic(t.panic) /\ UNCHANGED measurements
                 ELSE /\ measurements' = Append(measurements,
                                               Measurement(test_type, payload_size, t.mbits))
                      /\ UNCHANGED panic
    /\ UNCHANGED <<step, inflight, metadata, latencies, avg_latency, i, size_idx,
                   results, stats, stdout, anomalies>>

\* log_measurements on the batch.
BatchSummarize ==
    /\ BatchOpen
    /\ LET summary == log_measurements(measurements)
       IN  /\ stats' = StatsOf(summary)
           /\ IF summary.panic # "none"
              THEN Panic(summary.panic) /\ UNCHANGED stdout
              ELSE stdout' = Append(stdout, LineOf(summary)) /\ UNCHANGED panic
    /\ UNCHANGED <<step, log, inflight, metadata, latencies, avg_latency, i, size_idx,
                   measurements, results, anomalies>>

NextBatch ==
    \/ BatchTransfer
    \/ BatchSummarize

SpecBatch == InitBatch /\ [][NextBatch]_vars

FetchMetadataReturn ==
    /\ Call = "fetch_metadata"
    /\ inflight # {}
    /\ \E r \in MetaResponses(Budget) : FetchMetadataReturnWith(r)

LatencyReturn ==
    /\ Call = "run_latency_test"
    /\ inflight # {}
    /\ \E r \in LatencyResponses(Budget) : LatencyReturnWith(r)

TransferReturn ==
    /\ Call \in TestTypes
    /\ inflight # {}
    /\ \E r \in TransferResponses(Budget) : TransferReturnWith(r)

Next ==
    \/ FetchMetadataSend
    \/ FetchMetadataReturn
    \/ LatencySend
    \/ LatencyReturn
    \/ TransferSend
    \/ TransferReturn

Spec == Init /\ [][Next]_vars

(***************************************************************************)
(* Vocabulary of the properties.                                           *)
(***************************************************************************)
Rank(phase) ==
    CASE phase = "metadata" -> 1
      [] phase = "latency" -> 2
      [] phase = "Download" -> 3
      [] phase = "Upload" -> 4

\* How many requests a phase issues when nothing fails.
FullCount(phase) ==
    CASE phase = "metadata" -> 1
      [] phase = "latency" -> NR_LATENCY_TESTS + 1
      [] OTHER -> Len(PAYLOAD_SIZES) * NR_TEST_RUNS

Issued(phase) == {k \in DOMAIN log : log[k].phase = phase}
Completed(k) == log[k].resp.send # "pending"
Lines(about) == {l \in DOMAIN stdout : stdout[l].line = about}

\* The index in log of the first request of a phase, and of its j-th request
\* (the requests of a phase are adjacent in log).
First(phase) ==
    CHOOSE k \in DOMAIN log : log[k].phase = phase /\ (k = 1 \/ log[k - 1].phase # phase)

Nth(phase, j) == First(phase) + j - 1

\* The measurements run_tests has pushed for a test type, returned or not.
Recorded(test_type) ==
    IF results[test_type].returned THEN results[test_type].measurements
    ELSE IF step \in 1..Len(speed_test) /\ speed_test[step] = test_type THEN measurements
    ELSE <<>>

\* x is the finite value num/den.
Is(x, num, den) == x.k = "num" /\ x.d > 0 /\ x.n * den = num * x.d

(***************************************************************************)
(* C1: requests are issued in the order metadata, latency, download,       *)
(* upload; a phase issues its first request only after the phase before it *)
(* has issued all of its requests and the last of them has returned; at    *)
(* most one request is in flight, and it is the one issued last.           *)
(***************************************************************************)
C1_SequentialPhases ==
    /\ Cardinality(inflight) <= 1
    /\ inflight = {k \in DOMAIN log : ~Completed(k)}
    /\ \A k \in inflight : k = Len(log)
    /\ log # <<>> => log[1].phase = "metadata"
    /\ \A k \in 1..(Len(log) - 1) :
          \/ log[k + 1].phase = log[k].phase
          \/ /\ Rank(log[k + 1].phase) = Rank(log[k].phase) + 1
             /\ Cardinality(Issued(log[k].phase)) = FullCount(log[k].phase)
             /\ \A m \in Issued(log[k].phase) : m <= k /\ Completed(m)

C1_Witness ==
    /\ \E k \in inflight : log[k].phase = "Upload"
    /\ Cardinality(Issued("Download")) = 30
    /\ Cardinality(Issued("latency")) = 26

(***************************************************************************)
(* C2: a request that could not be sent, or whose response could not be    *)
(* received, ends the run: the run has failed, the request is the last one *)
(* issued (no retry, nothing after it), and its batch has no summary.      *)
(***************************************************************************)
C2_TransportFailureIsFatal ==
    \A k \in DOMAIN log :
        (log[k].resp.send = "err" \/ log[k].resp.body = "err") =>
            /\ panic # "none"
            /\ k = Len(log)
            /\ Lines(log[k].phase) = {}

(***************************************************************************)
(* C3: every Measurement comes from a transfer whose body was read to the  *)
(* end: a transfer whose body could not be read records no Measurement and *)
(* ends the run.                                                           *)
(***************************************************************************)
C3_MeasurementsFromFullBodies ==
    /\ \A test_type \in TestTypes :
          Len(Recorded(test_type)) =
              Cardinality({k \in Issued(test_type) : log[k].resp.body = "ok"})
    /\ (\E k \in DOMAIN log : log[k].resp.body = "err") => panic # "none"

(***************************************************************************)
(* C4: a latency response without a Server-Timing header holding a         *)
(* parseable cfRequestDuration;dur=<float> makes the probe fail: no sample *)
(* is recorded for it, no later request is issued, no mean is reported and *)
(* the download and upload phases do not start.                            *)
(***************************************************************************)
ParseableTiming(headers) ==
    /\ "Server-Timing" \in DOMAIN headers
    /\ headers["Server-Timing"].visible_ascii
    /\ headers["Server-Timing"].bytes \in {"cfRequestDuration;dur=10", "cfRequestDuration;dur=60"}

Malformed(k) ==
    /\ log[k].phase = "latency"
    /\ log[k].resp.send = "ok"
    /\ ~ParseableTiming(log[k].resp.headers)

C4_MalformedTimingAbortsProbe ==
    \A k \in DOMAIN log :
        Malformed(k) =>
            /\ panic # "none"
            /\ k = Len(log)
            /\ Len(latencies) = Cardinality(Issued("latency")) - 1
            /\ ~avg_latency.returned
            /\ Lines("latency") = {}
            /\ Issued("Download") = {} /\ Issued("Upload") = {}

C4_Witness ==
    \E k \in DOMAIN log : Malformed(k) /\ Len(latencies) = 3 /\ panic # "none"

(***************************************************************************)
(* C5: fetch_metadata issues one zero-byte GET, and whatever headers the   *)
(* response carries it returns a Metadata whose fields are the header      *)
(* values as sent, or the field's sentinel for an absent header.           *)
(***************************************************************************)
FieldOf(headers, name, sentinel) ==
    IF name \in DOMAIN headers THEN headers[name].bytes ELSE sentinel

ExpectedMetadata(headers) ==
    [city |-> FieldOf(headers, "cf-meta-city", "City N/A"),
     country |-> FieldOf(headers, "cf-meta-country", "Country N/A"),
     ip |-> FieldOf(headers, "cf-meta-ip", "IP N/A"),
     asn |-> FieldOf(headers, "cf-meta-asn", "ASN N/A"),
     colo |-> FieldOf(headers, "cf-meta-colo", "Colo N/A")]

C5_MetadataFromAnyHeaders ==
    /\ Cardinality(Issued("metadata")) <= 1
    /\ \A k \in Issued("metadata") :
          /\ log[k].bytes = 0 /\ log[k].method = "GET"
          /\ log[k].resp.send = "ok" =>
                /\ step > 1
                /\ metadata = ExpectedMetadata(log[k].resp.headers)

(***************************************************************************)
(* C6: the sample of a probe with client duration c and server duration s  *)
(* is max(0, c - s); every sample and the mean are >= 0.                   *)
(***************************************************************************)
ServerMs(headers) ==
    IF headers["Server-Timing"].bytes = "cfRequestDuration;dur=10" THEN 10 ELSE 60

ClientMs(k) == log[k].resp.duration_ms

MaxOf(a, b) == IF a >= b THEN a ELSE b

C6_LatencyIsClampedDifference ==
    /\ Len(latencies) <= Cardinality(Issued("latency"))
    /\ \A j \in 1..Len(latencies) :
          LET k == Nth("latency", j)
          IN  /\ log[k].phase = "latency"
              /\ Is(latencies[j], MaxOf(0, ClientMs(k) - ServerMs(log[k].resp.headers)), 1)
              /\ latencies[j].n >= 0
    /\ avg_latency.returned => avg_latency.value.k = "num" /\ avg_latency.value.n >= 0

C6_Witness ==
    /\ avg_latency.returned
    /\ \E j \in 1..Len(latencies) :
          LET k == Nth("latency", j)
          IN  ClientMs(k) = 5 /\ ServerMs(log[k].resp.headers) = 10 /\ latencies[j] = F(0, 1)
    /\ \E j \in 1..Len(latencies) :
          LET k == Nth("latency", j)
          IN  ClientMs(k) = 50 /\ ServerMs(log[k].resp.headers) = 10 /\ latencies[j] = F(40, 1)

(***************************************************************************)
(* C7: log_measurements on an empty batch fails at a guard, before any     *)
(* statistic is computed: no NaN mean and no infinite min or max is ever   *)
(* computed or printed; a batch that is not empty never makes it fail.     *)
(***************************************************************************)
C7_EmptyBatchFailsAtGuard ==
    /\ stats.computed =>
          /\ measurements # <<>>
          /\ IsFinite(stats.min) /\ IsFinite(stats.max) /\ IsFinite(stats.avg)
    /\ \A l \in DOMAIN stdout :
          stdout[l].line \in TestTypes =>
              IsFinite(stdout[l].min) /\ IsFinite(stdout[l].max) /\ IsFinite(stdout[l].avg)
    /\ panic = "index out of bounds" => measurements = <<>>

(***************************************************************************)
(* C8: when every transfer of a batch has payload size p > 0 and takes the *)
(* same time t > 0, every Measurement has mbit = p*8/1_000_000/t > 0 (t in *)
(* seconds; p*8/(1000*t) for t in milliseconds), and the summary of the    *)
(* batch has min = max = mean = that value.                                *)
(***************************************************************************)
UniformBatch ==
    /\ log # <<>>
    /\ Len(measurements) = Len(log)
    /\ \A k \in DOMAIN log :
          /\ log[k].bytes = log[1].bytes
          /\ log[k].resp.duration_ms = log[1].resp.duration_ms

C8_UniformBatchThroughput ==
    UniformBatch =>
        LET p == log[1].bytes
            t == log[1].resp.duration_ms
        IN  /\ p > 0 /\ t > 0
            /\ \A j \in DOMAIN measurements :
                  /\ Is(measurements[j].mbit, p * 8, 1000 * t)
                  /\ measurements[j].mbit.n > 0
                  /\ measurements[j].payload_size = p
            /\ stats.computed =>
                  /\ Is(stats.min, p * 8, 1000 * t)
                  /\ Is(stats.max, p * 8, 1000 * t)
                  /\ Is(stats.avg, p * 8, 1000 * t)
                  /\ panic = "none"
                  /\ Len(stdout) = 1
                  /\ stdout[1] = Line(measurements[1].test_type, stats.min, stats.max, stats.avg)

C8_Witness ==
    /\ UniformBatch
    /\ Len(measurements) = 3
    /\ log[1].bytes = 1000000 /\ log[1].resp.duration_ms = 100
    /\ \A j \in 1..3 : measurements[j].mbit = F(80, 1)
    /\ stats = [computed |-> TRUE, min |-> F(80, 1), max |-> F(80, 1), avg |-> F(80, 1)]

(***************************************************************************)
(* C9: run_tests returns Len(PAYLOAD_SIZES) * NR_TEST_RUNS = 30            *)
(* Measurements of its test type in the order of issue: the payload sizes  *)
(* in the order 100_000, 1_000_000, 10_000_000, NR_TEST_RUNS adjacent      *)
(* positions each; the requests of a test type are issued by ascending     *)
(* payload size; the summary of a test type is printed once, after its     *)
(* last transfer has returned.                                             *)
(***************************************************************************)
C9_RunTestsResult ==
    /\ \A test_type \in TestTypes :
          /\ results[test_type].returned =>
                LET ms == results[test_type].measurements
                IN  /\ Len(ms) = Len(PAYLOAD_SIZES) * NR_TEST_RUNS
                    /\ Len(ms) = 30
                    /\ Cardinality(Issued(test_type)) = Len(ms)
                    /\ \A j \in DOMAIN ms :
                          /\ ms[j].test_type = test_type
                          /\ ms[j].payload_size = PAYLOAD_SIZES[((j - 1) \div NR_TEST_RUNS) + 1]
                          /\ log[Nth(test_type, j)].phase = test_type
                          /\ log[Nth(test_type, j)].bytes = ms[j].payload_size
                    /\ \A j \in 1..10 :
                          /\ ms[j].payload_size = 100000
                          /\ ms[10 + j].payload_size = 1000000
                          /\ ms[20 + j].payload_size = 10000000
                    /\ Cardinality(Lines(test_type)) = 1
          /\ Lines(test_type) # {} =>
                /\ results[test_type].returned
                /\ \A k \in Issued(test_type) : Completed(k)
    /\ \A k \in 1..(Len(log) - 1) :
          log[k].phase \in TestTypes /\ log[k + 1].phase = log[k].phase =>
              log[k].bytes <= log[k + 1].bytes

C9_Witness ==
    /\ results["Download"].returned
    /\ results["Upload"].returned
    /\ \E j \in 1..30 : results["Download"].measurements[j].mbit = F(4, 1)

(***************************************************************************)
(* C10: a latency probe that completes issues NR_LATENCY_TESTS + 1 = 26    *)
(* zero-byte GET requests and returns 26 samples in the order of issue;    *)
(* its mean is the sum of all 26 samples divided by 26.                    *)
(***************************************************************************)
RECURSIVE Total(_)
Total(samples) == IF samples = <<>> THEN 0 ELSE Head(samples).n + Total(Tail(samples))

Probe(j) == log[Nth("latency", j)]

C10_LatencyProbeCount ==
    avg_latency.returned =>
        /\ Len(latencies) = NR_LATENCY_TESTS + 1
        /\ Len(latencies) = 26
        /\ Cardinality(Issued("latency")) = 26
        /\ \A k \in Issued("latency") : log[k].bytes = 0 /\ log[k].method = "GET"
        /\ \A j \in 1..Len(latencies) :
              /\ latencies[j].k = "num" /\ latencies[j].d = 1
              /\ latencies[j].n = 0 <=>
                    ClientMs(Nth("latency", j)) <= ServerMs(Probe(j).resp.headers)
        /\ Is(avg_latency.value, Total(latencies), 26)
        /\ \A l \in Lines("latency") : stdout[l].avg = avg_latency.value

C10_Witness ==
    /\ avg_latency.returned
    /\ latencies[2] = F(0, 1)
    /\ latencies[1] = F(40, 1)
    /\ avg_latency.value = F(1000, 26)

=============================================================================
